---- MODULE Spec2Model ----
(***************************************************************************)
(* A model of the secrets scanner of src/main.py: rule resolution, the     *)
(* exclusion filter, the per-file line matcher, the repository traversal   *)
(* and main's rendering of the findings.                                   *)
(*                                                                         *)
(* Text (paths, rule names, patterns, lines) is a sequence of one-         *)
(* character strings.  Python's re.search is modelled by compiling the     *)
(* pattern text and matching it, for the part of the regular expression    *)
(* syntax the built-in table and the inputs use: literals, '.', character  *)
(* sets with ranges, '|', and the repeats '*', '+', '?', '{m}', '{m,n}'.   *)
(***************************************************************************)
EXTENDS Integers, Sequences, FiniteSets, TLC

----------------------------------------------------------------------------
(* Characters and text                                                     *)

\* The grave accent (code 96), which the TLA+ lexer does not take inside a
\* string; no text of the model holds it.
GRAVE == "grave"

\* The printable ASCII characters in code order (32 .. 126).
ASCII ==
  <<" ", "!", "\"", "#", "$", "%", "&", "'", "(", ")", "*", "+", ",", "-", ".", "/",
    "0", "1", "2", "3", "4", "5", "6", "7", "8", "9", ":", ";", "<", "=", ">", "?",
    "@", "A", "B", "C", "D", "E", "F", "G", "H", "I", "J", "K", "L", "M", "N", "O",
    "P", "Q", "R", "S", "T", "U", "V", "W", "X", "Y", "Z", "[", "\\", "]", "^", "_",
    GRAVE, "a", "b", "c", "d", "e", "f", "g", "h", "i", "j", "k", "l", "m", "n", "o",
    "p", "q", "r", "s", "t", "u", "v", "w", "x", "y", "z", "{", "|", "}", "~">>

NL == "\n"

TAB == "\t"

Chars == {ASCII[i] : i \in 1..Len(ASCII)} \cup {NL, TAB}

\* What str.strip() removes at both ends.
Whitespace == {" ", TAB, NL, "\r"}

Digits == <<"0", "1", "2", "3", "4", "5", "6", "7", "8", "9">>

IsDigit(c) == \E i \in 1..10 : Digits[i] = c

DigitVal(c) == (CHOOSE i \in 1..10 : Digits[i] = c) - 1

Ord(c) == CHOOSE i \in 1..Len(ASCII) : ASCII[i] = c

\* The characters lo-hi of a character set; empty when lo > hi or either
\* is not a printable ASCII character.
CharRange(lo, hi) ==
  IF lo \in Chars \ {NL, TAB} /\ hi \in Chars \ {NL, TAB}
  THEN {ASCII[i] : i \in Ord(lo)..Ord(hi)}
  ELSE {}

Last(s) == s[Len(s)]

\* str.strip(): drop leading and trailing whitespace.
RECURSIVE LStrip(_)
LStrip(s) ==
  IF s # <<>> /\ Head(s) \in Whitespace THEN LStrip(Tail(s)) ELSE s

RECURSIVE RStrip(_)
RStrip(s) ==
  IF s # <<>> /\ Last(s) \in Whitespace
  THEN RStrip(SubSeq(s, 1, Len(s) - 1))
  ELSE s

strip(s) == RStrip(LStrip(s))

\* os.path.join(a, b) for a relative b and an a that does not end in "/".
path_join(a, b) == a \o <<"/">> \o b

----------------------------------------------------------------------------
(* The built-in rule table                                                 *)

N_API_KEY == <<"A", "P", "I", "_", "K", "E", "Y">>

N_PASSWORD == <<"P", "A", "S", "S", "W", "O", "R", "D">>

N_AWS_ACCESS_KEY_ID ==
  <<"A", "W", "S", "_", "A", "C", "C", "E", "S", "S", "_", "K", "E", "Y", "_", "I", "D">>

N_AWS_SECRET_ACCESS_KEY ==
  <<"A", "W", "S", "_", "S", "E", "C", "R", "E", "T", "_", "A", "C", "C", "E", "S", "S",
    "_", "K", "E", "Y">>

\* A dict is the sequence of its <<key, value>> items in insertion order.
\* DEFAULT_PATTERNS: [A-Za-z0-9]{32,45}, password|pwd|secret,
\* AKIA[0-9A-Z]{16}, [a-zA-Z0-9/+]{40}.
DEFAULT_PATTERNS ==
  << <<N_API_KEY,
       <<"[", "A", "-", "Z", "a", "-", "z", "0", "-", "9", "]",
         "{", "3", "2", ",", "4", "5", "}">> >>,
     <<N_PASSWORD,
       <<"p", "a", "s", "s", "w", "o", "r", "d", "|", "p", "w", "d", "|",
         "s", "e", "c", "r", "e", "t">> >>,
     <<N_AWS_ACCESS_KEY_ID,
       <<"A", "K", "I", "A", "[", "0", "-", "9", "A", "-", "Z", "]",
         "{", "1", "6", "}">> >>,
     <<N_AWS_SECRET_ACCESS_KEY,
       <<"[", "a", "-", "z", "A", "-", "Z", "0", "-", "9", "/", "+", "]",
         "{", "4", "0", "}">> >> >>

----------------------------------------------------------------------------
(* The texts the inputs are made of                                        *)

\* Lines of text, as iterating a file yields them.
L_password == <<"p", "a", "s", "s", "w", "o", "r", "d", "=", "1", NL>>

L_twice == <<" ", " ", "p", "w", "d", ",", " ", "s", "e", "c", "r", "e", "t", " ", " ", NL>>

L_abc == <<"a", "b", "c", NL>>

L_plain == <<"x", " ", "=", " ", "1", NL>>

L_akia ==
  <<"a", "w", "s", "_", "k", "e", "y", " ", "=", " ", "A", "K", "I", "A", "A", "B", "C",
    "D", "E", "F", "G", "H", "I", "J", "K", "L", "M", "N", "O", "P", NL>>

\* "k = secret" and 34 more letters and digits: a run of 40.
L_run40 ==
  <<"k", " ", "=", " ", "s", "e", "c", "r", "e", "t", "A", "b", "C", "d", "E", "f", "G",
    "h", "I", "j", "K", "l", "M", "n", "O", "p", "Q", "r", "S", "t", "U", "v", "W", "x",
    "Y", "z", "0", "1", "2", "3", "4", "5", "6", "7", NL>>

\* Rule names the built-in table does not hold.
N_a_dot_c == <<"a", ".", "c">>

N_star_log == <<"*", ".", "l", "o", "g">>

N_secret == <<"s", "e", "c", "r", "e", "t">>

Root == <<"r">>

NotADir == <<"r", "/", "a">>

Missing == <<"n", "o", "d", "i", "r">>

OutPath == <<"o", "u", "t", ".", "t", "x", "t">>

----------------------------------------------------------------------------
(* Regular expressions: re.search(pattern, string)                         *)

\* The greatest number of repetitions of a repeat without one.
Unbounded == 0 - 1

\* A piece is one atom with its repeat: the set of characters the atom
\* accepts, and the least and greatest number of repetitions.
Piece(set, min, max) == [set |-> set, min |-> min, max |-> max, rep |-> FALSE]

Repeated(piece, min, max) == [set |-> piece.set, min |-> min, max |-> max, rep |-> TRUE]

\* The first index >= i of p that holds no digit (Len(p) + 1 if none).
RECURSIVE DigitsEnd(_, _)
DigitsEnd(p, i) ==
  IF i <= Len(p) /\ IsDigit(p[i]) THEN DigitsEnd(p, i + 1) ELSE i

\* The number written in p[i .. j-1].
RECURSIVE Number(_, _, _)
Number(p, i, j) ==
  IF j <= i THEN 0 ELSE Number(p, i, j - 1) * 10 + DigitVal(p[j - 1])

\* The index of the "]" closing the character set opened before index i
\* (0 if there is none).
RECURSIVE SetEnd(_, _)
SetEnd(p, i) ==
  IF i > Len(p) THEN 0 ELSE IF p[i] = "]" THEN i ELSE SetEnd(p, i + 1)

\* The characters of the set items p[i .. j]: single characters and ranges.
RECURSIVE SetItems(_, _, _)
SetItems(p, i, j) ==
  IF i > j THEN {}
  ELSE IF i + 2 <= j /\ p[i + 1] = "-"
       THEN CharRange(p[i], p[i + 2]) \cup SetItems(p, i + 3, j)
       ELSE {p[i]} \cup SetItems(p, i + 1, j)

\* The repeat "{m}", "{m,n}", "{m,}" or "{,n}" starting at p[i] = "{":
\* [ok, min, max, next], ok FALSE when the text is no repeat (the brace is
\* then an ordinary character).
BraceRepeat(p, i) ==
  LET a == DigitsEnd(p, i + 1)
      hasComma == a <= Len(p) /\ p[a] = ","
      b == IF hasComma THEN DigitsEnd(p, a + 1) ELSE a
      closed == b <= Len(p) /\ p[b] = "}"
      lo == IF a > i + 1 THEN Number(p, i + 1, a) ELSE 0
      hi == IF ~hasComma THEN lo
            ELSE IF b > a + 1 THEN Number(p, a + 1, b) ELSE Unbounded
  IN  [ok |-> closed /\ (a > i + 1 \/ (hasComma /\ b > a + 1)) ,
       min |-> lo, max |-> hi, next |-> b + 1]

\* Characters whose meaning outside a character set is not modelled.
Unsupported == {"(", ")", "\\", "^", "$"}

ReError == [st |-> "error", branches |-> <<>>]

\* sre_parse: the branches (alternatives) of pattern p, each a sequence of
\* pieces; "error" where re raises re.error.
RECURSIVE ParseRe(_, _, _, _)
ParseRe(p, i, done, cur) ==
  IF i > Len(p) THEN [st |-> "ok", branches |-> Append(done, cur)]
  ELSE LET c == p[i] IN
    CASE c = "|" -> ParseRe(p, i + 1, Append(done, cur), <<>>)
      [] c \in {"*", "+", "?"} ->
           IF cur = <<>> THEN ReError                \* nothing to repeat
           ELSE IF Last(cur).rep
                THEN IF c = "?"                      \* a lazy repeat
                     THEN ParseRe(p, i + 1, done, cur)
                     ELSE IF c = "*" THEN ReError    \* multiple repeat
                     ELSE [st |-> "unsupported", branches |-> <<>>]
                ELSE ParseRe(p, i + 1, done,
                       [cur EXCEPT ![Len(cur)] =
                          Repeated(@, IF c = "+" THEN 1 ELSE 0,
                                      IF c = "?" THEN 1 ELSE Unbounded)])
      [] c = "{" ->
           LET r == BraceRepeat(p, i) IN
           IF ~r.ok THEN ParseRe(p, i + 1, done, Append(cur, Piece({c}, 1, 1)))
           ELSE IF cur = <<>> THEN ReError           \* nothing to repeat
           ELSE IF Last(cur).rep THEN ReError        \* multiple repeat
           ELSE IF r.max # Unbounded /\ r.max < r.min THEN ReError
           ELSE ParseRe(p, r.next, done,
                  [cur EXCEPT ![Len(cur)] = Repeated(@, r.min, r.max)])
      [] c = "[" ->
           LET neg == i + 1 <= Len(p) /\ p[i + 1] = "^"
               first == IF neg THEN i + 2 ELSE i + 1
               e == SetEnd(p, first + 1)
               items == SetItems(p, first, e - 1)
           IN  IF e = 0 THEN ReError                 \* unterminated set
               ELSE ParseRe(p, e + 1, done,
                      Append(cur, Piece(IF neg THEN Chars \ items ELSE items, 1, 1)))
      [] c = "." -> ParseRe(p, i + 1, done, Append(cur, Piece(Chars \ {NL}, 1, 1)))
      [] c \in Unsupported -> [st |-> "unsupported", branches |-> <<>>]
      [] OTHER -> ParseRe(p, i + 1, done, Append(cur, Piece({c}, 1, 1)))

re_compile(p) == ParseRe(p, 1, <<>>, <<>>)

\* The number of consecutive characters of s after position i (0-based,
\* i characters consumed) that lie in set.
RECURSIVE RunLen(_, _, _)
RunLen(set, s, i) ==
  IF i < Len(s) /\ s[i + 1] \in set THEN 1 + RunLen(set, s, i + 1) ELSE 0

\* The positions reachable from a position of P by matching one piece.
StepPiece(piece, s, P) ==
  UNION { LET run == RunLen(piece.set, s, q)
              top == IF piece.max = Unbounded \/ piece.max > run
                     THEN run ELSE piece.max
          IN  {q + n : n \in piece.min..top} : q \in P }

\* The positions reachable from P by matching pieces k .. Len(pieces).
RECURSIVE MatchFrom(_, _, _, _)
MatchFrom(pieces, k, s, P) ==
  IF k > Len(pieces) \/ P = {} THEN P
  ELSE MatchFrom(pieces, k + 1, s, StepPiece(pieces[k], s, P))

\* re.search: a match of some branch starting anywhere in s.
MATCH == "match"

NOMATCH == "nomatch"

RE_ERROR == "re.error"

Search(pattern, string) ==
  LET c == re_compile(pattern) IN
  IF c.st # "ok" THEN RE_ERROR
  ELSE IF \E b \in 1..Len(c.branches) :
            MatchFrom(c.branches[b], 1, string, 0..Len(string)) # {}
       THEN MATCH
       ELSE NOMATCH

\* The searches the inputs lead to, computed once: the patterns of the
\* built-in table, the rule names and the exclusion patterns, against the
\* lines and the paths.
TablePatterns ==
  {DEFAULT_PATTERNS[i][2] : i \in 1..Len(DEFAULT_PATTERNS)}
    \cup {DEFAULT_PATTERNS[i][1] : i \in 1..Len(DEFAULT_PATTERNS)}
    \cup {N_a_dot_c, N_star_log, N_secret, <<"a">>, <<"b">>, <<"r", ".", "d">>}

TableTexts ==
  {L_password, L_twice, L_abc, L_plain, L_akia, L_run40,
   <<"r", "/", "a">>, <<"r", "/", "b">>, <<"r", "/", "d", "/", "c">>}

SearchTable == [x \in TablePatterns \X TableTexts |-> Search(x[1], x[2])]

re_search(pattern, string) == SearchTable[<<pattern, string>>]

----------------------------------------------------------------------------
(* Rule resolution                                                         *)

DictKeys(d) == [i \in 1..Len(d) |-> d[i][1]]

DictHas(d, k) == \E i \in 1..Len(d) : d[i][1] = k

DictGet(d, k) == d[CHOOSE i \in 1..Len(d) : d[i][1] = k][2]

\* d[k] = v: a key the dict holds keeps its place, a new key goes last.
DictSet(d, k, v) ==
  IF DictHas(d, k)
  THEN [i \in 1..Len(d) |-> IF d[i][1] = k THEN <<k, v>> ELSE d[i]]
  ELSE Append(d, <<k, v>>)

\* A log record: the level, the message's fixed text, the path or name the
\* message holds, and the exception it holds, if any.
LogRec(level, msg, arg) == [level |-> level, msg |-> msg, arg |-> arg, exc |-> "none"]

\* main, lines 129-135: the loop over args.patterns from its i-th name on.
\* An unknown name is stored as its own pattern text, unescaped.
RECURSIVE ResolvePatterns(_, _, _, _)
ResolvePatterns(names, i, dict, lg) ==
  IF i > Len(names) THEN [patterns_to_use |-> dict, log |-> lg]
  ELSE LET pattern_name == names[i] IN
       IF DictHas(DEFAULT_PATTERNS, pattern_name)
       THEN ResolvePatterns(names, i + 1,
              DictSet(dict, pattern_name, DictGet(DEFAULT_PATTERNS, pattern_name)), lg)
       ELSE ResolvePatterns(names, i + 1,
              DictSet(dict, pattern_name, pattern_name),
              Append(lg, LogRec("WARNING", "not found in default patterns", pattern_name)))

----------------------------------------------------------------------------
(* The exclusion filter                                                    *)

Returned(v) == [raised |-> "none", value |-> v]

Raised(e) == [raised |-> e, value |-> FALSE]

\* Mutant: the loop returns after its first pattern.
is_file_excluded_FirstOnly(file_path, exclude_patterns) ==
  IF exclude_patterns = <<>> THEN Returned(FALSE)
  ELSE LET m == re_search(Head(exclude_patterns), file_path) IN
       IF m = RE_ERROR THEN Raised(RE_ERROR) ELSE Returned(m = MATCH)

\* is_file_excluded: the first pattern found in the path returns True; a
\* pattern re cannot compile raises re.error out of the function.
RECURSIVE is_file_excluded(_, _)
is_file_excluded(file_path, exclude_patterns) ==
  IF exclude_patterns = <<>> THEN Returned(FALSE)
  ELSE LET m == re_search(Head(exclude_patterns), file_path) IN
       IF m = RE_ERROR THEN Raised(RE_ERROR)
       ELSE IF m = MATCH THEN Returned(TRUE)
       ELSE is_file_excluded(file_path, Tail(exclude_patterns))

----------------------------------------------------------------------------
(* The program state                                                       *)

VARIABLES
  fs,               \* the file system: a set of directory and file nodes
  args,             \* the parsed command line
  pc,               \* main's position
  exit_status,      \* -1 while the process runs, then its exit status
  uncaught,         \* the exception that ended the process, or "none"
  patterns_to_use,  \* main's rule dict
  log,              \* the records handed to logging
  results,          \* scan_repository's result list
  stack,            \* os.walk: the directories still to be walked
  cur_dir,          \* the directory whose entries are being iterated
  pending,          \* the entries of cur_dir not yet iterated
  stdout,           \* the lines printed
  out_file,         \* the lines written to args.output
  run,              \* which invocation on this tree and command line
  prev_results,     \* the result list of the invocation before
  visited,          \* history: each path is_file_excluded returned for, with its answer
  opened            \* history: the paths scan_file was called on, in order

vars ==
  <<fs, args, pc, exit_status, uncaught, patterns_to_use, log, results, stack,
    cur_dir, pending, stdout, out_file, run, prev_results, visited, opened>>

----------------------------------------------------------------------------
(* The file system                                                         *)

DirNode(parent, name, listable) ==
  [parent |-> parent, name |-> name, kind |-> "dir", listable |-> listable,
   lines |-> <<>>, err |-> "none", good |-> 0]

\* A file: the lines iterating it yields, and how reading it fails: "none",
\* "notfound" and "denied" (open raises), or "decode" (the read that would
\* fetch line good + 1 raises UnicodeDecodeError, after good lines).
FileNode(parent, name, lines, err, good) ==
  [parent |-> parent, name |-> name, kind |-> "file", listable |-> FALSE,
   lines |-> lines, err |-> err, good |-> good]

NodePath(n) == IF n.parent = <<>> THEN n.name ELSE path_join(n.parent, n.name)

Exists(path) == \E n \in fs : NodePath(n) = path

NodeAt(path) == CHOOSE n \in fs : NodePath(n) = path

isdir(path) == \E n \in fs : NodePath(n) = path /\ n.kind = "dir"

isfile(path) == \E n \in fs : NodePath(n) = path /\ n.kind = "file"

Children(dir) == {n \in fs : n.parent = dir}

\* The orders in which a directory's entries can be enumerated: os.listdir
\* and os.scandir return them in arbitrary order.
Listings(dir) ==
  LET names == {n.name : n \in Children(dir)}
      k == Cardinality(names)
  IN  {s \in [1..k -> names] : \A i, j \in 1..k : s[i] = s[j] => i = j}

----------------------------------------------------------------------------
(* The line matcher                                                        *)

ErrorReading(file_path, e) ==
  [level |-> "ERROR", msg |-> "Error reading file", arg |-> file_path, exc |-> e]

\* Mutant: the rule loop ends at the first rule that matches the line.
RECURSIVE ScanLines_BreakAfterMatch(_, _, _, _, _, _)
ScanLines_BreakAfterMatch(file_path, node, patterns, i, j, found) ==
  IF j = 1 /\ node.err = "decode" /\ i = node.good + 1
  THEN [results |-> found, log |-> <<ErrorReading(file_path, "decode")>>]
  ELSE IF i > Len(node.lines) THEN [results |-> found, log |-> <<>>]
  ELSE IF j > Len(patterns)
  THEN ScanLines_BreakAfterMatch(file_path, node, patterns, i + 1, 1, found)
  ELSE LET line == node.lines[i]
           match == re_search(patterns[j][2], line)
       IN  IF match = RE_ERROR
           THEN [results |-> found, log |-> <<ErrorReading(file_path, RE_ERROR)>>]
           ELSE IF match = MATCH
           THEN ScanLines_BreakAfterMatch(file_path, node, patterns, i + 1, 1,
                  Append(found, <<patterns[j][1], strip(line), i>>))
           ELSE ScanLines_BreakAfterMatch(file_path, node, patterns, i, j + 1, found)

\* scan_file's loops from line i, rule j on, with the findings so far.  An
\* exception leaves the try block; the findings gathered before it stay in
\* the list the function returns.
RECURSIVE ScanLines(_, _, _, _, _, _)
ScanLines(file_path, node, patterns, i, j, found) ==
  IF j = 1 /\ node.err = "decode" /\ i = node.good + 1
  THEN [results |-> found, log |-> <<ErrorReading(file_path, "decode")>>]
  ELSE IF i > Len(node.lines) THEN [results |-> found, log |-> <<>>]
  ELSE IF j > Len(patterns)
  THEN ScanLines(file_path, node, patterns, i + 1, 1, found)
  ELSE LET line == node.lines[i]
           match == re_search(patterns[j][2], line)
       IN  IF match = RE_ERROR
           THEN [results |-> found, log |-> <<ErrorReading(file_path, RE_ERROR)>>]
           ELSE ScanLines(file_path, node, patterns, i, j + 1,
                  IF match = MATCH
                  THEN Append(found, <<patterns[j][1], strip(line), i>>)
                  ELSE found)

scan_file(file_path, patterns) ==
  IF ~Exists(file_path) \/ NodeAt(file_path).err = "notfound"
  THEN [results |-> <<>>, log |-> <<LogRec("ERROR", "File not found", file_path)>>]
  ELSE IF NodeAt(file_path).kind = "dir" \/ NodeAt(file_path).err = "denied"
  THEN [results |-> <<>>, log |-> <<ErrorReading(file_path, "denied")>>]
  ELSE ScanLines(file_path, NodeAt(file_path), patterns, 1, 1, <<>>)

\* Mutant: the file's findings replace the list instead of extending it.
AddFindings_Overwrite(res, file_path, file_results) ==
  [k \in 1..Len(file_results) |->
     <<file_path, file_results[k][1], file_results[k][2], file_results[k][3]>>]

\* scan_repository, lines 104-105 and 111-112: the file's findings, each
\* with the file's path in front, go to the end of the result list.
AddFindings(res, file_path, file_results) ==
  res \o [k \in 1..Len(file_results) |->
            <<file_path, file_results[k][1], file_results[k][2], file_results[k][3]>>]

----------------------------------------------------------------------------
(* Rendering                                                               *)

RECURSIVE IntText(_)
IntText(n) ==
  IF n < 10 THEN <<Digits[n + 1]>> ELSE IntText(n \div 10) \o <<Digits[(n % 10) + 1]>>

\* f"File: {file_path}, Pattern: {pattern_name}, Line: {line}, Line Number: {line_number}"
\* and the line end that print and f.write add.
FormatFinding(f) ==
  <<"F", "i", "l", "e", ":", " ">> \o f[1]
    \o <<",", " ", "P", "a", "t", "t", "e", "r", "n", ":", " ">> \o f[2]
    \o <<",", " ", "L", "i", "n", "e", ":", " ">> \o f[3]
    \o <<",", " ", "L", "i", "n", "e", " ", "N", "u", "m", "b", "e", "r", ":", " ">>
    \o IntText(f[4]) \o <<NL>>

\* Mutant: the lines are emitted last finding first.
RenderAll_Reversed(res) == [k \in 1..Len(res) |-> FormatFinding(res[Len(res) + 1 - k])]

\* The lines main emits for a result list, in the list's order.
RenderAll(res) == [k \in 1..Len(res) |-> FormatFinding(res[k])]

NoFile == [exists |-> FALSE, lines |-> <<>>]

----------------------------------------------------------------------------
(* main                                                                    *)

\* The process ends: sys.exit(status), the end of main, or an exception
\* nothing catches (Python then exits with status 1).
Exit(status, exc) ==
  /\ pc' = "exited"
  /\ exit_status' = status
  /\ uncaught' = exc

\* Mutant: the error is logged and main goes on.
Main_CheckPath_NoExit ==
  /\ pc = "main"
  /\ IF ~isdir(args.repository_path)
     THEN log' = Append(log, LogRec("ERROR", "not a valid directory", args.repository_path))
     ELSE log' = log
  /\ pc' = "resolve"
  /\ UNCHANGED <<fs, args, exit_status, uncaught, patterns_to_use, results, stack, cur_dir,
                 pending, stdout, out_file, run, prev_results, visited, opened>>

\* main, lines 124-126.
Main_CheckPath ==
  /\ pc = "main"
  /\ IF ~isdir(args.repository_path)
     THEN /\ log' = Append(log, LogRec("ERROR", "not a valid directory", args.repository_path))
          /\ Exit(1, "none")
     ELSE /\ pc' = "resolve"
          /\ UNCHANGED <<log, exit_status, uncaught>>
  /\ UNCHANGED <<fs, args, patterns_to_use, results, stack, cur_dir, pending,
                 stdout, out_file, run, prev_results, visited, opened>>

\* main, lines 129-135.
Main_Resolve ==
  /\ pc = "resolve"
  /\ LET r == ResolvePatterns(args.patterns, 1, <<>>, log) IN
       /\ patterns_to_use' = r.patterns_to_use
       /\ log' = r.log
  /\ pc' = "scan"
  /\ UNCHANGED <<fs, args, exit_status, uncaught, results, stack, cur_dir, pending,
                 stdout, out_file, run, prev_results, visited, opened>>

----------------------------------------------------------------------------
(* scan_repository                                                         *)

\* Lines 97-99: the recursive branch starts os.walk at the root.
Scan_StartWalk ==
  /\ pc = "scan"
  /\ args.recursive
  /\ results' = <<>>
  /\ stack' = <<args.repository_path>>
  /\ pending' = <<>>
  /\ cur_dir' = args.repository_path
  /\ pc' = "walk"
  /\ UNCHANGED <<fs, args, exit_status, uncaught, patterns_to_use, log,
                 stdout, out_file, run, prev_results, visited, opened>>

\* What os.walk makes of a directory's entries in the order enumerated: the
\* names that are no directories, and the paths of the subdirectories.
WalkFiles(top, order) == SelectSeq(order, LAMBDA e : ~isdir(path_join(top, e)))

\* Mutant: the walk does not descend.
WalkDirs_None(top, order) == <<>>

WalkDirs(top, order) ==
  LET dirs == SelectSeq(order, LAMBDA e : isdir(path_join(top, e)))
  IN  [k \in 1..Len(dirs) |-> path_join(top, dirs[k])]

\* os.walk's next directory: its entries are enumerated, the files are
\* handed to the loop of line 100 and the subdirectories are walked after
\* them, before the directories already waiting.  A directory that cannot
\* be listed is passed over (os.walk's onerror is None).
Walk_NextDir ==
  /\ pc = "walk"
  /\ pending = <<>>
  /\ stack # <<>>
  /\ LET top == Head(stack) IN
       IF ~isdir(top) \/ ~NodeAt(top).listable
       THEN /\ stack' = Tail(stack)
            /\ UNCHANGED <<cur_dir, pending>>
       ELSE \E order \in Listings(top) :
              /\ cur_dir' = top
              /\ pending' = WalkFiles(top, order)
              /\ stack' = WalkDirs(top, order) \o Tail(stack)
  /\ UNCHANGED <<fs, args, pc, exit_status, uncaught, patterns_to_use, log, results,
                 stdout, out_file, run, prev_results, visited, opened>>

\* Lines 102-105 and the second half of line 109 to line 112: the exclusion
\* filter, then scan_file and the append of its findings.  re.error raised
\* by the filter is caught nowhere.
ScanCandidate(file_path) ==
  LET ex == is_file_excluded(file_path, args.exclude) IN
  IF ex.raised # "none"
  THEN /\ Exit(1, ex.raised)
       /\ UNCHANGED <<results, log, visited, opened>>
  ELSE /\ visited' = Append(visited, [path |-> file_path, excluded |-> ex.value])
       /\ UNCHANGED <<pc, exit_status, uncaught>>
       /\ IF ex.value
          THEN UNCHANGED <<results, log, opened>>
          ELSE LET file_results == scan_file(file_path, patterns_to_use) IN
                 /\ opened' = Append(opened, file_path)
                 /\ log' = log \o file_results.log
                 /\ results' = AddFindings(results, file_path, file_results.results)

\* Lines 100-105: one file of the directory os.walk yielded.
Walk_File ==
  /\ pc = "walk"
  /\ pending # <<>>
  /\ ScanCandidate(path_join(cur_dir, Head(pending)))
  /\ pending' = Tail(pending)
  /\ UNCHANGED <<fs, args, patterns_to_use, stack, cur_dir, stdout, out_file,
                 run, prev_results>>

\* Lines 106-107: os.listdir of the root; its error is caught nowhere.
Scan_ListDir ==
  /\ pc = "scan"
  /\ ~args.recursive
  /\ results' = <<>>
  /\ cur_dir' = args.repository_path
  /\ stack' = <<>>
  /\ IF ~isdir(args.repository_path) \/ ~NodeAt(args.repository_path).listable
     THEN /\ Exit(1, "PermissionError")
          /\ pending' = <<>>
     ELSE /\ \E order \in Listings(args.repository_path) : pending' = order
          /\ pc' = "listdir"
          /\ UNCHANGED <<exit_status, uncaught>>
  /\ UNCHANGED <<fs, args, patterns_to_use, log, stdout, out_file, run,
                 prev_results, visited, opened>>

\* Lines 107-112: one entry of the root; the filter is evaluated for regular
\* files only.
ListDir_Entry ==
  /\ pc = "listdir"
  /\ pending # <<>>
  /\ LET file_path == path_join(cur_dir, Head(pending)) IN
       IF isfile(file_path)
       THEN ScanCandidate(file_path)
       ELSE UNCHANGED <<pc, exit_status, uncaught, results, log, visited, opened>>
  /\ pending' = Tail(pending)
  /\ UNCHANGED <<fs, args, patterns_to_use, stack, cur_dir, stdout, out_file,
                 run, prev_results>>

\* Line 114.
Scan_Return ==
  /\ pc \in {"walk", "listdir"}
  /\ pending = <<>>
  /\ stack = <<>>
  /\ pc' = "render"
  /\ UNCHANGED <<fs, args, exit_status, uncaught, patterns_to_use, log, results, stack,
                 cur_dir, pending, stdout, out_file, run, prev_results, visited, opened>>

----------------------------------------------------------------------------
(* main: the findings are written or printed                               *)

\* Lines 144-151: the output file; an error opening it or writing to it is
\* logged, with the lines written before it left in the file.
Main_WriteFile ==
  /\ pc = "render"
  /\ args.output # <<>>
  /\ \/ /\ out_file' = [exists |-> TRUE, lines |-> RenderAll(results)]
        /\ log' = Append(log, LogRec("INFO", "Results saved", args.output))
     \/ /\ out_file' = out_file
        /\ log' = Append(log, LogRec("ERROR", "Error writing to output file", args.output))
     \/ \E k \in 0..(Len(results) - 1) :
          /\ out_file' = [exists |-> TRUE, lines |-> SubSeq(RenderAll(results), 1, k)]
          /\ log' = Append(log, LogRec("ERROR", "Error writing to output file", args.output))
  /\ Exit(0, "none")
  /\ UNCHANGED <<fs, args, patterns_to_use, results, stack, cur_dir, pending, stdout,
                 run, prev_results, visited, opened>>

\* Lines 152-154.
Main_Print ==
  /\ pc = "render"
  /\ args.output = <<>>
  /\ stdout' = stdout \o RenderAll(results)
  /\ Exit(0, "none")
  /\ UNCHANGED <<fs, args, patterns_to_use, log, results, stack, cur_dir, pending,
                 out_file, run, prev_results, visited, opened>>

----------------------------------------------------------------------------
(* A second invocation on the unchanged tree with the same command line.    *)
(* The output file lies outside the tree; each invocation starts without   *)
(* it.                                                                     *)

MaxRuns == 2

Rerun ==
  /\ pc = "exited"
  /\ exit_status = 0
  /\ run < MaxRuns
  /\ run' = run + 1
  /\ prev_results' = results
  /\ pc' = "main"
  /\ exit_status' = -1
  /\ uncaught' = "none"
  /\ patterns_to_use' = <<>>
  /\ log' = <<>>
  /\ results' = <<>>
  /\ stdout' = <<>>
  /\ visited' = <<>>
  /\ opened' = <<>>
  /\ out_file' = NoFile
  /\ UNCHANGED <<fs, args, stack, cur_dir, pending>>

----------------------------------------------------------------------------
(* The inputs                                                              *)

AllNames == [i \in 1..Len(DEFAULT_PATTERNS) |-> DEFAULT_PATTERNS[i][1]]

Args(path, patterns, exclude, recursive, output) ==
  [repository_path |-> path, patterns |-> patterns, exclude |-> exclude,
   recursive |-> recursive, output |-> output]

F_a(err, good) == FileNode(Root, <<"a">>, <<L_password, L_plain, L_twice>>, err, good)

F_b(err) == FileNode(Root, <<"b">>, <<L_abc, L_akia>>, err, 0)

F_c(err) == FileNode(<<"r", "/", "d">>, <<"c">>, <<L_run40>>, err, 0)

\* Trees for the traversal: under the root the files a and b and the
\* directory d with the file c, each there or not, readable or not.
TraversalTrees ==
  { {DirNode(<<>>, Root, TRUE)} \cup A \cup B \cup D :
      A \in { {}, {F_a("none", 0)}, {F_a("decode", 1)} },
      B \in { {}, {F_b("none")}, {F_b("notfound")} },
      D \in { {},
              {DirNode(Root, <<"d">>, TRUE), F_c("none")},
              {DirNode(Root, <<"d">>, TRUE), F_c("denied")},
              {DirNode(Root, <<"d">>, FALSE), F_c("none")} } }
  \cup
  { {DirNode(<<>>, Root, FALSE), F_a("none", 0), DirNode(Root, <<"d">>, TRUE), F_c("none")} }

TraversalPatterns == {AllNames, <<N_PASSWORD>>, <<N_a_dot_c, N_PASSWORD>>}

\* "b" is found in r/b alone, "r.d" in r/d/c alone ("." takes the "/"),
\* and "*.log" is no regular expression.
TraversalExcludes ==
  { <<>>, << <<"b">> >>, << <<"r", ".", "d">>, <<"a">> >>, <<N_star_log>>,
    << <<"b">>, N_star_log >> }

InitTraversal ==
  /\ fs \in TraversalTrees
  /\ args \in { Args(Root, n, e, r, o) :
                  n \in TraversalPatterns, e \in TraversalExcludes,
                  r \in BOOLEAN, o \in {<<>>, OutPath} }

\* A repository path that is a regular file, and one that does not exist.
InitBadPath ==
  /\ fs \in TraversalTrees
  /\ args \in { Args(p, AllNames, <<>>, r, o) :
                  p \in {NotADir, Missing}, r \in BOOLEAN, o \in {<<>>, OutPath} }

\* Files for the line matcher: up to MaxLines lines, read whole or failing.
MaxLines == 2

MatchLines == {L_twice, L_abc, L_akia, L_run40}

RECURSIVE SeqsUpTo(_, _)
SeqsUpTo(S, n) ==
  IF n = 0 THEN {<<>>}
  ELSE LET shorter == SeqsUpTo(S, n - 1) IN
       shorter \cup {Append(q, x) : q \in shorter, x \in S}

MatchFiles ==
  { FileNode(Root, <<"a">>, ls, e[1], e[2]) :
      ls \in SeqsUpTo(MatchLines, MaxLines),
      e \in {<<"none", 0>>, <<"denied", 0>>} }
  \cup
  { FileNode(Root, <<"a">>, ls, "decode", g) :
      ls \in SeqsUpTo(MatchLines, MaxLines), g \in 0..MaxLines }

MatchPatterns ==
  { AllNames, <<N_AWS_ACCESS_KEY_ID, N_PASSWORD>>, <<N_a_dot_c>>,
    <<N_secret, N_PASSWORD, N_secret>>, <<N_PASSWORD, N_star_log>>,
    <<N_PASSWORD, N_API_KEY, N_PASSWORD>> }

InitMatching ==
  /\ fs \in { {DirNode(<<>>, Root, TRUE), f} : f \in {m \in MatchFiles : m.good <= Len(m.lines)} }
  /\ args \in { Args(Root, n, <<>>, r, <<>>) : n \in MatchPatterns, r \in BOOLEAN }

Init ==
  /\ InitTraversal \/ InitBadPath \/ InitMatching
  /\ pc = "main"
  /\ exit_status = -1
  /\ uncaught = "none"
  /\ patterns_to_use = <<>>
  /\ log = <<>>
  /\ results = <<>>
  /\ stack = <<>>
  /\ cur_dir = <<>>
  /\ pending = <<>>
  /\ stdout = <<>>
  /\ out_file = NoFile
  /\ run = 1
  /\ prev_results = <<>>
  /\ visited = <<>>
  /\ opened = <<>>

Next ==
  \/ Main_CheckPath
  \/ Main_Resolve
  \/ Scan_StartWalk
  \/ Walk_NextDir
  \/ Walk_File
  \/ Scan_ListDir
  \/ ListDir_Entry
  \/ Scan_Return
  \/ Main_WriteFile
  \/ Main_Print
  \/ Rerun

Spec == Init /\ [][Next]_vars

----------------------------------------------------------------------------
(* Properties                                                              *)

Range(q) == {q[i] : i \in 1..Len(q)}

Position(q, x) == CHOOSE i \in 1..Len(q) : q[i] = x

StartsWith(t, pre) == Len(pre) <= Len(t) /\ SubSeq(t, 1, Len(pre)) = pre

IsPrefix(a, b) == Len(a) <= Len(b) /\ SubSeq(b, 1, Len(a)) = a

\* The text sub occurs in t, character for character.
Contains(t, sub) == \E i \in 0..(Len(t) - Len(sub)) : SubSeq(t, i + 1, i + Len(sub)) = sub

\* scan_repository has returned its list.
ScanReturned == pc = "render" \/ (pc = "exited" /\ exit_status = 0)

\* Opening or reading the file raises.
ReadFails(path) == ~Exists(path) \/ NodeAt(path).err # "none"

FindingsOf(path) == SelectSeq(results, LAMBDA r : r[1] = path)

\* The exclusion filter returns False for the path.
Admitted(path) == is_file_excluded(path, args.exclude) = Returned(FALSE)

UnderRoot(n) == StartsWith(NodePath(n), path_join(args.repository_path, <<>>))

\* Every directory from the root down to the node can be listed.
Reachable(n) ==
  /\ UnderRoot(n)
  /\ \A d \in fs :
       (/\ d.kind = "dir"
        /\ NodePath(d) = args.repository_path \/ UnderRoot(d)
        /\ StartsWith(NodePath(n), path_join(NodePath(d), <<>>))) => d.listable

DirectChildFile(path) ==
  \E n \in fs : n.kind = "file" /\ n.parent = args.repository_path /\ NodePath(n) = path

\* The files the traversal is to hand to the filter.
InScope(n) ==
  /\ n.kind = "file"
  /\ IF args.recursive THEN Reachable(n) ELSE n.parent = args.repository_path

\* The findings of the opened files other than one, in the order opened:
\* what the scan of the tree without that file returns.
RECURSIVE ScanOfOthers(_, _)
ScanOfOthers(paths, failing) ==
  IF paths = <<>> THEN <<>>
  ELSE (IF Head(paths) = failing THEN <<>>
        ELSE LET found == scan_file(Head(paths), patterns_to_use).results
             IN  [k \in 1..Len(found) |-> <<Head(paths)>> \o found[k]])
       \o ScanOfOthers(Tail(paths), failing)

\* C1: a file whose read fails leaves the findings of the other files as
\* they are without it, in the same order, and when scan_repository
\* returns, every other file in scope that the filter admits was scanned.
C1_Isolation ==
  \A f \in Range(opened) :
    ReadFails(f) =>
      /\ SelectSeq(results, LAMBDA r : r[1] # f) = ScanOfOthers(opened, f)
      /\ ScanReturned =>
           \A n \in fs :
             InScope(n) /\ Admitted(NodePath(n)) => NodePath(n) \in Range(opened)

\* A failing file was opened before a readable one whose findings are in
\* the returned list.
C1_Witness ==
  /\ ScanReturned
  /\ \E i, j \in 1..Len(opened) :
       /\ i < j
       /\ ReadFails(opened[i])
       /\ ~ReadFails(opened[j])
       /\ FindingsOf(opened[j]) # <<>>

\* C2: a file whose read fails contributes no finding, also when the read
\* fails after lines that matched.
C2_NoPartialFindings ==
  \A f \in Range(opened) : ReadFails(f) => FindingsOf(f) = <<>>

\* C3: once the root is validated, no error of the scanning phase ends the
\* run.
C3_NoScanError == uncaught = "none"

\* Some rule compiles and matches a line of the file, and the file is read
\* and matched to its end.
Matching(n) ==
  /\ n.err = "none"
  /\ \A i \in 1..Len(patterns_to_use) : re_compile(patterns_to_use[i][2]).st = "ok"
  /\ \E i \in 1..Len(patterns_to_use), k \in 1..Len(n.lines) :
       re_search(patterns_to_use[i][2], n.lines[k]) = MATCH

\* C4 as claimed: without -r only direct child files of the root are
\* opened and reported; with -r every regular file under the root that the
\* filter admits is opened, and one holding a matching line is reported.
C4_EveryDepth ==
  ScanReturned =>
    /\ ~args.recursive =>
         \A p \in Range(opened) \cup {results[k][1] : k \in 1..Len(results)} :
           DirectChildFile(p)
    /\ \A n \in fs :
         n.kind = "file" /\ n.parent # args.repository_path /\ Matching(n) =>
           IF args.recursive /\ UnderRoot(n) /\ Admitted(NodePath(n))
           THEN FindingsOf(NodePath(n)) # <<>>
           ELSE FindingsOf(NodePath(n)) = <<>>
    /\ args.recursive =>
         \A n \in fs :
           n.kind = "file" /\ UnderRoot(n) /\ Admitted(NodePath(n)) =>
             NodePath(n) \in Range(opened)

\* C4 amended: with -r, every admitted regular file in a directory that is
\* reached from the root through directories that can be listed.
C4_EveryListedDepth ==
  ScanReturned =>
    /\ ~args.recursive =>
         \A p \in Range(opened) \cup {results[k][1] : k \in 1..Len(results)} :
           DirectChildFile(p)
    /\ \A n \in fs :
         n.kind = "file" /\ n.parent # args.repository_path /\ Matching(n) =>
           IF args.recursive /\ Reachable(n) /\ Admitted(NodePath(n))
           THEN FindingsOf(NodePath(n)) # <<>>
           ELSE FindingsOf(NodePath(n)) = <<>>
    /\ args.recursive =>
         \A n \in fs :
           n.kind = "file" /\ Reachable(n) /\ Admitted(NodePath(n)) =>
             NodePath(n) \in Range(opened)

\* A recursive scan reported the nested file.
C4_Witness ==
  /\ ScanReturned
  /\ args.recursive
  /\ \E n \in fs :
       n.kind = "file" /\ n.parent # args.repository_path /\ FindingsOf(NodePath(n)) # <<>>

Resolved == isdir(args.repository_path) /\ pc \notin {"main", "resolve"}

\* The lines of the files of the tree.
LinesOfTree == UNION {Range(n.lines) : n \in fs}

\* C6: the dict's keys are the distinct requested names; a built-in name
\* has the built-in pattern; any other name has a warning and a rule that
\* matches a line exactly when the line holds the name itself.
C6_Resolution ==
  Resolved =>
    /\ Range(DictKeys(patterns_to_use)) = Range(args.patterns)
    /\ Len(patterns_to_use) = Cardinality(Range(args.patterns))
    /\ \A i \in 1..Len(patterns_to_use) :
         LET name == patterns_to_use[i][1]
             pattern == patterns_to_use[i][2]
         IN  IF DictHas(DEFAULT_PATTERNS, name)
             THEN pattern = DictGet(DEFAULT_PATTERNS, name)
             ELSE /\ \E r \in Range(log) : r.level = "WARNING" /\ r.arg = name
                  /\ \A line \in LinesOfTree :
                       re_search(pattern, line) = MATCH <=> Contains(line, name)

\* C7: the second scan of the unchanged tree returns the list the first
\* returned.
C7_Idempotent == run > 1 /\ ScanReturned => results = prev_results

\* scan_file ran to its end on the file: nothing raised in its try block.
SuccessfullyRead(path) ==
  /\ Exists(path)
  /\ NodeAt(path).err = "none"
  /\ NodeAt(path).lines # <<>> =>
       \A i \in 1..Len(patterns_to_use) : re_compile(patterns_to_use[i][2]).st = "ok"

\* C8: for a file scan_file read to its end, each finding has a line number
\* of the file, that line's stripped text and a rule found in the line, and
\* each rule and line has one finding if the rule is found in the line and
\* none otherwise.
C8_OneFindingPerPair ==
  \A p \in Range(opened) :
    SuccessfullyRead(p) =>
      LET found == FindingsOf(p)
          lines == NodeAt(p).lines
      IN  /\ \A k \in 1..Len(found) :
               /\ found[k][4] \in 1..Len(lines)
               /\ found[k][3] = strip(lines[found[k][4]])
               /\ DictHas(patterns_to_use, found[k][2])
          /\ \A i \in 1..Len(patterns_to_use), n \in 1..Len(lines) :
               Cardinality({k \in 1..Len(found) :
                              found[k][2] = patterns_to_use[i][1] /\ found[k][4] = n})
                 = IF re_search(patterns_to_use[i][2], lines[n]) = MATCH THEN 1 ELSE 0

\* One line of a file read to its end has findings for two rules, and a
\* finding's text is shorter than its line without the line end.
C8_Witness ==
  /\ ScanReturned
  /\ \E i, j \in 1..Len(results) :
       /\ results[i][1] = results[j][1]
       /\ results[i][4] = results[j][4]
       /\ results[i][2] # results[j][2]
       /\ SuccessfullyRead(results[i][1])
  /\ \E i \in 1..Len(results) :
       /\ SuccessfullyRead(results[i][1])
       /\ Len(results[i][3]) + 1 < Len(NodeAt(results[i][1]).lines[results[i][4]])

\* Where a finding stands: the place of its file among the files opened,
\* its line number, the place of its rule in the dict.
OrderKey(r) ==
  <<Position(opened, r[1]), r[4], Position(DictKeys(patterns_to_use), r[2])>>

KeyLess(a, b) ==
  \/ a[1] < b[1]
  \/ a[1] = b[1] /\ a[2] < b[2]
  \/ a[1] = b[1] /\ a[2] = b[2] /\ a[3] < b[3]

C9_Ordered ==
  /\ \A i, j \in 1..Len(results) :
       i < j => KeyLess(OrderKey(results[i]), OrderKey(results[j]))
  /\ pc = "exited" /\ exit_status = 0 /\ args.output = <<>> =>
       /\ Len(stdout) = Len(results)
       /\ \A k \in 1..Len(results) : stdout[k] = FormatFinding(results[k])
  /\ (\E r \in Range(log) : r.msg = "Results saved") =>
       /\ Len(out_file.lines) = Len(results)
       /\ \A k \in 1..Len(results) : out_file.lines[k] = FormatFinding(results[k])

\* C9: the list only grows at its end within a run; it is ordered by file
\* as opened, then line number, then the rule's place in the dict; main
\* emits one line per finding in the list's order.
C9_ResultOrder ==
  /\ []C9_Ordered
  /\ [][pc' = "main" \/ IsPrefix(results, results')]_vars

\* Findings of two files and of two lines of one file were printed.
C9_Witness ==
  /\ pc = "exited"
  /\ exit_status = 0
  /\ stdout # <<>>
  /\ \E i, j \in 1..Len(results) : results[i][1] # results[j][1]
  /\ \E i, j \in 1..Len(results) :
       results[i][1] = results[j][1] /\ results[i][4] # results[j][4]
  /\ \E i, j \in 1..Len(results) :
       results[i][1] = results[j][1] /\ results[i][4] = results[j][4] /\ i # j

\* C10: with a repository path that is no directory the run ends with
\* status 1 and one error record, before any rule is resolved, any file is
\* read or anything is emitted; an error writing the output file is logged
\* by a run that ends with status 0.
C10_FatalFirst ==
  /\ ~isdir(args.repository_path) =>
       /\ pc \in {"main", "exited"}
       /\ pc = "exited" =>
            /\ exit_status = 1
            /\ uncaught = "none"
            /\ Len(log) = 1 /\ log[1].level = "ERROR"
       /\ patterns_to_use = <<>>
       /\ visited = <<>> /\ opened = <<>> /\ results = <<>>
       /\ stdout = <<>> /\ out_file = NoFile
  /\ \A r \in Range(log) :
       r.msg = "Error writing to output file" =>
         pc = "exited" /\ exit_status = 0 /\ uncaught = "none"

\* The run ended on a repository path that is no directory.
C10_Witness ==
  /\ pc = "exited"
  /\ exit_status = 1
  /\ ~isdir(args.repository_path)
  /\ log # <<>>

====
